---- MODULE Spec2Model ----
(***************************************************************************)
(* The AFL LLVM-mode instrumentation pass, llvm_mode/afl-llvm-pass.so.cc:  *)
(* AFLCoverage::runOnModule, with the persistent block counter kept in     *)
(* /tmp/.cur_id, the per-block edge-coverage update, the switch / icmp      *)
(* distance records and the block report.                                  *)
(*                                                                         *)
(* Integer values of the program (the u32 CurId, the operands of compares  *)
(* and switches, the distances) are little-endian byte sequences of their  *)
(* real width: a u32 is four bytes, an i64 eight.  Operands of a compare   *)
(* or switch stand for the values they hold in the execution looked at, so *)
(* an emitted distance is the value the emitted code computes there.       *)
(***************************************************************************)
EXTENDS Integers, Sequences, FiniteSets, TLC

(***************************************************************************)
(* Bounds of the model.                                                    *)
(***************************************************************************)
MaxRuns == 2
MaxBlocks == 2
MaxLoc == 1
MaxRatioLen == 3
MaxCases == 2

(***************************************************************************)
(* Fixed-width integers as little-endian byte sequences.                   *)
(***************************************************************************)
Zeros(n) == [i \in 1..n |-> 0]

RECURSIVE IncBytes(_)
IncBytes(s) ==
  IF s = <<>> THEN <<>>
  ELSE IF Head(s) = 255 THEN <<0>> \o IncBytes(Tail(s))
  ELSE <<Head(s) + 1>> \o Tail(s)

RECURSIVE XorNat(_, _)
XorNat(x, y) ==
  IF x = 0 /\ y = 0 THEN 0
  ELSE ((((x % 2) + (y % 2)) % 2)) + (2 * XorNat(x \div 2, y \div 2))

CreateXor_sub(a, b) == [i \in 1..Len(a) |-> (256 + a[i] - b[i]) % 256]
\* IRBuilder::CreateXor on two values of the same integer type
CreateXor(a, b) == [i \in 1..Len(a) |-> XorNat(a[i], b[i])]

\* IRBuilder::CreateIntCast(V, Int32Ty, false): trunc, zext or nothing
IntCast32(v) ==
  IF Len(v) = 4 THEN v
  ELSE IF Len(v) > 4 THEN SubSeq(v, 1, 4)
  ELSE v \o Zeros(4 - Len(v))

\* ConstantInt::get(Int32Ty, n) for a small host integer n
Const32(n) == <<n % 256, (n \div 256) % 256, 0, 0>>

Zero32 == Zeros(4)

(***************************************************************************)
(* Instructions.  A basic block is a sequence of instruction records; the  *)
(* last one is its terminator.                                             *)
(***************************************************************************)
Phi == [op |-> "phi"]
Other == [op |-> "other"]
Ret == [op |-> "ret"]
Br(c) == [op |-> "br", conditional |-> c]
ICmp(ty, bits, a, b) == [op |-> "icmp", ty |-> ty, bits |-> bits, a |-> a, b |-> b]
Case(v, d) == [val |-> v, dest |-> d]
Switch(bits, cond, dflt, cases) ==
  [op |-> "switch", bits |-> bits, cond |-> cond, dflt |-> dflt, cases |-> cases]
Call(fn, id, label, dist) ==
  [op |-> "call", fn |-> fn, id |-> id, label |-> label, dist |-> dist]
CallBlock(id) == [op |-> "call", fn |-> "insert_block", id |-> id]

\* BasicBlock::getFirstInsertionPt: the first instruction that is not a PHI
RECURSIVE FirstNonPhi(_, _)
FirstNonPhi(bb, i) ==
  IF i < Len(bb) /\ bb[i].op = "phi" THEN FirstNonPhi(bb, i + 1) ELSE i

getFirstInsertionPt(bb) == FirstNonPhi(bb, 1)

\* An IRBuilder positioned at instruction k inserts before it.
InsertBefore(bb, k, new) == SubSeq(bb, 1, k - 1) \o new \o SubSeq(bb, k, Len(bb))

Shift_stale(ip, k, n) == ip
\* Where instruction ip sits after n instructions are inserted before k
Shift(ip, k, n) == IF k <= ip THEN ip + n ELSE ip

(***************************************************************************)
(* Edge coverage (lines 138-169): eight instructions at the first          *)
(* insertion point.  CreateZExt of an i32 to i32 adds no instruction.      *)
(***************************************************************************)
EdgeCoverage(cur_loc) ==
  << [op |-> "load", var |-> "__afl_prev_loc"],
     [op |-> "load", var |-> "__afl_area_ptr"],
     [op |-> "xor_loc", loc |-> cur_loc],
     [op |-> "gep"],
     [op |-> "load_counter"],
     [op |-> "add1"],
     [op |-> "store_counter"],
     [op |-> "store_prev_loc", val |-> cur_loc \div 2] >>

(***************************************************************************)
(* Switch: operand 0 is the condition, operand 1 the default destination,  *)
(* operand 2+2i the i-th case value and operand 3+2i its destination.      *)
(***************************************************************************)
getNumCases(SI) == Len(SI.cases)

getOperand(SI, k) ==
  IF k = 0 THEN SI.cond
  ELSE IF k = 1 THEN SI.dflt
  ELSE IF k % 2 = 0 THEN SI.cases[k \div 2].val
  ELSE SI.cases[(k - 1) \div 2].dest

LabelOperand_caseValue(SI, I) == getOperand(SI, 2 * I)
\* The operand the labelling loop reads for index I (lines 196-197)
LabelOperand(SI, I) == getOperand(SI, 1 + (2 * I))

\* The inner loop over J (lines 195-202)
RECURSIVE LabelInner(_, _, _, _, _, _, _)
LabelInner(SI, NumCases, I, J, Labels, CurLabel, Updated) ==
  IF J >= NumCases THEN [Labels |-> Labels, Updated |-> Updated]
  ELSE LET hit == LabelOperand(SI, I) = LabelOperand(SI, J) /\ Labels[J + 1] = 0
       IN  LabelInner(SI, NumCases, I, J + 1,
                      IF hit THEN [Labels EXCEPT ![J + 1] = CurLabel] ELSE Labels,
                      CurLabel, Updated \/ hit)

\* The outer loop over I (lines 193-204)
RECURSIVE LabelOuter(_, _, _, _, _)
LabelOuter(SI, NumCases, I, Labels, CurLabel) ==
  IF I >= NumCases THEN Labels
  ELSE LET r == LabelInner(SI, NumCases, I, 0, Labels, CurLabel, FALSE)
       IN  LabelOuter(SI, NumCases, I + 1, r.Labels,
                      IF r.Updated THEN CurLabel + 1 ELSE CurLabel)

\* "Convert label to Index" (lines 189-204); Labels[J] of the code is ConvertLabels(SI)[J + 1]
ConvertLabels(SI) ==
  LET NumCases == getNumCases(SI) + 1
  IN  LabelOuter(SI, NumCases, 0, Zeros(NumCases), 1)

\* The cast instruction CreateIntCast adds, if any
CastInstr(v) == IF Len(v) = 4 THEN <<>> ELSE <<[op |-> "cast", from |-> Len(v) * 8]>>

\* One iteration of the loop over SI->cases() (lines 208-217)
CaseDistance(SI, CurId, Labels, Inc) ==
  LET CaseVal  == SI.cases[Inc + 1].val
      X        == CreateXor(SI.cond, CaseVal)
      Distance == IntCast32(X)
  IN  <<[op |-> "xor", a |-> SI.cond, b |-> CaseVal]>> \o CastInstr(X) \o
      << Call("insert_distance", CurId, Labels[Inc + 2], Distance),
         ICmp("int", 32, Distance, Zero32),
         [op |-> "add"] >>

RECURSIVE CasesDistance(_, _, _, _)
CasesDistance(SI, CurId, Labels, Inc) ==
  IF Inc >= getNumCases(SI) THEN <<>>
  ELSE CaseDistance(SI, CurId, Labels, Inc) \o CasesDistance(SI, CurId, Labels, Inc + 1)

\* ICmpNE(Distance, 0) of every case, summed into DefaultDis (lines 214-215)
RECURSIVE NotCoveredSum(_, _)
NotCoveredSum(SI, Inc) ==
  IF Inc >= getNumCases(SI) THEN 0
  ELSE (IF IntCast32(CreateXor(SI.cond, SI.cases[Inc + 1].val)) # Zero32 THEN 1 ELSE 0)
       + NotCoveredSum(SI, Inc + 1)

\* "Save distance" (lines 206-220)
SwitchDistance(SI, CurId) ==
  LET Labels     == ConvertLabels(SI)
      DefaultDis == getNumCases(SI) - NotCoveredSum(SI, 0)
  IN  CasesDistance(SI, CurId, Labels, 0) \o
      (IF getNumCases(SI) > 0 THEN <<[op |-> "sub"]>> ELSE <<>>) \o
      <<Call("insert_distance", CurId, Labels[1], Const32(DefaultDis))>>

\* The switch is instrumented when its condition is at most 64 bits wide (line 187)
SwitchEligible(I) == I.op = "switch" /\ I.bits <= 64

\* The compare is instrumented under these conditions (lines 224-230)
IcmpEligible(I, IsConditionalBr) ==
  I.op = "icmp" /\ IsConditionalBr /\ I.ty = "int" /\ I.bits <= 64

\* Lines 226-235
IcmpDistance(ICMP, CurId) ==
  LET X        == CreateXor(ICMP.a, ICMP.b)
      Distance == IntCast32(X)
  IN  <<[op |-> "xor", a |-> ICMP.a, b |-> ICMP.b]>> \o CastInstr(X) \o
      <<Call("insert_distance", CurId, 0, Distance)>>

\* Lines 177-239: bb is the block as it stands, ip the place of the outer IRBuilder
DistanceAnalysis(bb, ip, CurId) ==
  LET t   == Len(bb)
      IsConditionalBr == bb[t].op = "br" /\ bb[t].conditional
      sw  == IF SwitchEligible(bb[t]) THEN SwitchDistance(bb[t], CurId) ELSE <<>>
      b2  == InsertBefore(bb, t, sw)
      ip2 == Shift(ip, t, Len(sw))
      it  == Len(b2) - 1
      ic  == IF IcmpEligible(b2[it], IsConditionalBr)
             THEN IcmpDistance(b2[it], CurId) ELSE <<>>
  IN  [bb |-> InsertBefore(b2, it, ic), ip |-> Shift(ip2, it, Len(ic))]

\* BB.size() > 2 as line 176 evaluates it
SizeGuard(bb) == Len(bb) > 2

\* The body of the loop for a sampled block (lines 138-243), CurId already advanced
InstrumentBlock(BB, CurId, cur_loc) ==
  LET ip0 == getFirstInsertionPt(BB)
      edge == EdgeCoverage(cur_loc)
      b1  == InsertBefore(BB, ip0, edge)
      ip1 == Shift(ip0, ip0, Len(edge))
      r   == IF SizeGuard(b1) THEN DistanceAnalysis(b1, ip1, CurId)
             ELSE [bb |-> b1, ip |-> ip1]
  IN  InsertBefore(r.bb, r.ip, <<CallBlock(CurId)>>)

(***************************************************************************)
(* sscanf(inst_ratio_str, "%u", &inst_ratio) (line 102).  A string is a    *)
(* sequence of one-character strings.  %u skips white space, takes an      *)
(* optional "+" and then the longest run of decimal digits; what follows   *)
(* the digits is left unread.  ret is the number of items converted (-1    *)
(* stands for EOF).  The inputs of the model have no "-" and stay below    *)
(* 2^32.                                                                   *)
(***************************************************************************)
Digits == <<"0", "1", "2", "3", "4", "5", "6", "7", "8", "9">>

IsDigit(c) == \E d \in 1..10 : Digits[d] = c

DigitVal(c) == (CHOOSE d \in 1..10 : Digits[d] = c) - 1

RECURSIVE SkipSpace(_)
SkipSpace(s) == IF s # <<>> /\ Head(s) = " " THEN SkipSpace(Tail(s)) ELSE s

RECURSIVE ScanDigits(_, _, _)
ScanDigits(s, acc, n) ==
  IF s # <<>> /\ IsDigit(Head(s))
  THEN ScanDigits(Tail(s), (acc * 10) + DigitVal(Head(s)), n + 1)
  ELSE [val |-> acc, n |-> n]

sscanf_u(s) ==
  LET t == SkipSpace(s)
      u == IF t # <<>> /\ Head(t) = "+" THEN Tail(t) ELSE t
      d == ScanDigits(u, 0, 0)
  IN  IF t = <<>> THEN [ret |-> -1, val |-> 0]
      ELSE IF d.n = 0 THEN [ret |-> 0, val |-> 0]
      ELSE [ret |-> 1, val |-> d.val]

RatioAccepted_zero(ret, val) == ~(ret # 1 \/ val > 100)
\* The negation of the test of lines 102-103
RatioAccepted(ret, val) == ~(ret # 1 \/ val = 0 \/ val > 100)

\* AFL_R(100) >= inst_ratio: the block is skipped (line 136)
Skipped(r, ratio) == r >= ratio

AdvanceCurId_stuck(id) == id
\* CurId += 1 (line 174)
AdvanceCurId(id) == IncBytes(id)

BlockIdOf_before(id) == id
\* The ID the calls of a block carry: ConstantInt::get(Int32Ty, CurId) after line 174
BlockIdOf(id) == AdvanceCurId(id)

\* read(Fd, &CurId, 4) from offset 0: the number of bytes read
ReadCount(bytes) == IF Len(bytes) < 4 THEN Len(bytes) ELSE 4

WriteCounter_noSeek(bytes, id) == SubSeq(bytes, 1, 4) \o id \o SubSeq(bytes, 9, Len(bytes))
\* lseek(Fd, 0, SEEK_SET); write(Fd, &CurId, 4) (lines 259-260)
WriteCounter(bytes, id) == id \o SubSeq(bytes, 5, Len(bytes))

(***************************************************************************)
(* Inputs: the environment, the counter file, the blocks of a module.      *)
(***************************************************************************)
Procs == 1..MaxRuns

NoRatio == [set |-> FALSE, str |-> <<>>]
RatioEnv(s) == [set |-> TRUE, str |-> s]

RatioChars == {"0", "1", "5", "9", " ", "x", "+"}

RECURSIVE StringsUpTo(_)
StringsUpTo(n) ==
  IF n = 0 THEN {<<>>}
  ELSE LET S == StringsUpTo(n - 1)
       IN  S \cup {<<c>> \o t : c \in RatioChars, t \in {u \in S : Len(u) = n - 1}}

AllRatioEnvs == {NoRatio} \cup {RatioEnv(s) : s \in StringsUpTo(MaxRatioLen)}
FewRatioEnvs == {NoRatio, RatioEnv(<<"5", "0">>)}

\* Draws of AFL_R(100)
RandDraws == {0, 99}

\* Draws of AFL_R(MAP_SIZE)
Locs == 0..MaxLoc

CounterFiles ==
  { <<>>, <<7, 0>>, <<0, 0, 0, 0>>, <<255, 0, 0, 0>>,
    <<254, 255, 255, 255>>, <<3, 0, 0, 0, 9>> }

\* /tmp not writable; the file absent; the file present with some bytes
FsStates ==
  { [ok |-> FALSE, exists |-> FALSE, bytes |-> <<>>],
    [ok |-> TRUE, exists |-> FALSE, bytes |-> <<>>] }
  \cup {[ok |-> TRUE, exists |-> TRUE, bytes |-> b] : b \in CounterFiles}

Operand(bits, lo, hi) ==
  IF bits = 8 THEN <<lo>> ELSE <<lo>> \o Zeros((bits \div 8) - 2) \o <<hi>>

OperandVals(bits) == {Operand(bits, lo, hi) : lo \in {0, 10}, hi \in {0, 1}}

\* Case values: the value switched on, one that differs in the low byte, one
\* that differs in the high byte only
CaseVals(bits) == {Operand(bits, 10, 0), Operand(bits, 0, 0), Operand(bits, 10, 1)}

Dests == {"bb1", "bb2", "bb3"}

RECURSIVE CaseLists(_, _)
CaseLists(bits, n) ==
  IF n = 0 THEN {<<>>}
  ELSE LET S == CaseLists(bits, n - 1)
       IN  S \cup { Append(cs, Case(v, d)) :
                      cs \in {c \in S : Len(c) = n - 1},
                      v \in CaseVals(bits), d \in Dests }

\* LLVM keeps the case values of a switch distinct
DistinctVals(cs) == \A i, j \in 1..Len(cs) : cs[i].val = cs[j].val => i = j

SwitchInsts ==
  UNION { { Switch(bits, Operand(bits, 10, 0), d, cs) :
              d \in Dests,
              cs \in {c \in CaseLists(bits, MaxCases) : DistinctVals(c)} } :
          bits \in {32, 64, 128} }

IcmpInsts ==
  UNION { {ICmp("int", bits, a, b) : a \in OperandVals(bits), b \in OperandVals(bits)} :
          bits \in {8, 32, 64, 128} }
  \cup {ICmp("ptr", 64, Operand(64, 0, 0), Operand(64, 10, 0))}

Prefixes == {<<>>, <<Other>>, <<Phi>>, <<Phi, Other>>}

\* The blocks a module may hold
BlockShapes ==
  {pre \o <<t>> : pre \in Prefixes, t \in {Br(TRUE), Br(FALSE), Ret}}
  \cup {pre \o <<i, t>> : pre \in Prefixes, i \in IcmpInsts, t \in {Br(TRUE), Br(FALSE)}}
  \cup {pre \o <<sw>> : pre \in {<<>>, <<Other>>}, sw \in SwitchInsts}

FewBlocks ==
  { <<Ret>>,
    <<ICmp("int", 32, Operand(32, 0, 0), Operand(32, 10, 0)), Br(TRUE)>> }

(***************************************************************************)
(* State.  Every invocation p of the pass (one compiler process) has its   *)
(* own locals; the environment and /tmp/.cur_id are shared.                *)
(***************************************************************************)
VARIABLES
  envRatio,     \* getenv("AFL_INST_RATIO")
  fs,           \* /tmp/.cur_id: whether it can be opened, exists, its bytes
  pc,           \* where invocation p stands in runOnModule
  inst_ratio,   \* inst_ratio of p
  CurId,        \* CurId of p
  startId,      \* the value p read from the file at line 124
  inst_blocks,  \* inst_blocks of p
  visited,      \* how many blocks the loop of p has visited
  issued,       \* the IDs p put into its insert_block calls, in order
  bb            \* the block visited last: as it was, as it is left, by whom

vars == <<envRatio, fs, pc, inst_ratio, CurId, startId, inst_blocks, visited, issued, bb>>

NoBlock == [owner |-> 0, orig |-> <<>>, out |-> <<>>, sampled |-> FALSE, id |-> Zero32]

InitLocals ==
  /\ pc = [p \in Procs |-> "start"]
  /\ inst_ratio = [p \in Procs |-> 100]
  /\ CurId = [p \in Procs |-> Zero32]
  /\ startId = [p \in Procs |-> Zero32]
  /\ inst_blocks = [p \in Procs |-> 0]
  /\ visited = [p \in Procs |-> 0]
  /\ issued = [p \in Procs |-> <<>>]
  /\ bb = NoBlock

Init ==
  /\ envRatio \in FewRatioEnvs
  /\ fs \in FsStates
  /\ InitLocals

\* Lines 95-106: decide the instrumentation ratio, or die
DecideRatio(p) ==
  /\ pc[p] = "start"
  /\ LET sc == IF envRatio.set THEN sscanf_u(envRatio.str) ELSE [ret |-> 1, val |-> 100]
     IN  IF RatioAccepted(sc.ret, sc.val)
         THEN /\ inst_ratio' = [inst_ratio EXCEPT ![p] = sc.val]
              /\ pc' = [pc EXCEPT ![p] = "open"]
         ELSE /\ inst_ratio' = inst_ratio
              /\ pc' = [pc EXCEPT ![p] = "fatal_ratio"]
  /\ UNCHANGED <<envRatio, fs, CurId, startId, inst_blocks, visited, issued, bb>>

\* Lines 121-123: CurId = 0; open(O_RDWR | O_CREAT), or die
OpenCounter(p) ==
  /\ pc[p] = "open"
  /\ CurId' = [CurId EXCEPT ![p] = Zero32]
  /\ IF fs.ok
     THEN /\ fs' = [fs EXCEPT !.exists = TRUE]
          /\ pc' = [pc EXCEPT ![p] = "read"]
     ELSE /\ fs' = fs
          /\ pc' = [pc EXCEPT ![p] = "fatal_open"]
  /\ UNCHANGED <<envRatio, inst_ratio, startId, inst_blocks, visited, issued, bb>>

\* Line 124: read four bytes into CurId, or die on a short read
ReadCounter(p) ==
  /\ pc[p] = "read"
  /\ IF ReadCount(fs.bytes) < 4
     THEN /\ pc' = [pc EXCEPT ![p] = "fatal_read"]
          /\ UNCHANGED <<CurId, startId>>
     ELSE /\ CurId' = [CurId EXCEPT ![p] = SubSeq(fs.bytes, 1, 4)]
          /\ startId' = [startId EXCEPT ![p] = SubSeq(fs.bytes, 1, 4)]
          /\ pc' = [pc EXCEPT ![p] = "loop"]
  /\ UNCHANGED <<envRatio, fs, inst_ratio, inst_blocks, visited, issued, bb>>

\* Lines 131-245: one iteration of the loop, over the next block BB of the module
VisitBlock(p, Shapes) ==
  /\ pc[p] = "loop"
  /\ visited[p] < MaxBlocks
  /\ \E BB \in Shapes, r \in RandDraws :
       IF Skipped(r, inst_ratio[p])
       THEN /\ bb' = [owner |-> p, orig |-> BB, out |-> BB, sampled |-> FALSE, id |-> CurId[p]]
            /\ UNCHANGED <<CurId, inst_blocks, issued>>
       ELSE \E cur_loc \in Locs :
            /\ bb' = [owner |-> p, orig |-> BB,
                      out |-> InstrumentBlock(BB, BlockIdOf(CurId[p]), cur_loc),
                      sampled |-> TRUE, id |-> BlockIdOf(CurId[p])]
            /\ CurId' = [CurId EXCEPT ![p] = AdvanceCurId(CurId[p])]
            /\ inst_blocks' = [inst_blocks EXCEPT ![p] = inst_blocks[p] + 1]
            /\ issued' = [issued EXCEPT ![p] = Append(issued[p], BlockIdOf(CurId[p]))]
  /\ visited' = [visited EXCEPT ![p] = visited[p] + 1]
  /\ UNCHANGED <<envRatio, fs, pc, inst_ratio, startId>>

\* Lines 259-263: the loop is over; write CurId back and return
WriteBack(p) ==
  /\ pc[p] = "loop"
  /\ fs' = [fs EXCEPT !.bytes = WriteCounter(fs.bytes, CurId[p])]
  /\ pc' = [pc EXCEPT ![p] = "done"]
  /\ UNCHANGED <<envRatio, inst_ratio, CurId, startId, inst_blocks, visited, issued, bb>>

Ended(p) == pc[p] \in {"done", "fatal_ratio", "fatal_open", "fatal_read"}

\* Invocations one after the other: p starts when those before it have ended
InTurn(p) == \A q \in Procs : q < p => Ended(q)

\* Non-overlapping invocations over modules of a few blocks
Next ==
  \/ \E p \in Procs : InTurn(p) /\ DecideRatio(p)
  \/ \E p \in Procs : OpenCounter(p)
  \/ \E p \in Procs : ReadCounter(p)
  \/ \E p \in Procs : VisitBlock(p, FewBlocks)
  \/ \E p \in Procs : WriteBack(p)

Spec == Init /\ [][Next]_vars

\* One invocation, the ratio drawn from every string of the alphabet
InitRatio ==
  /\ envRatio \in AllRatioEnvs
  /\ fs = [ok |-> TRUE, exists |-> TRUE, bytes |-> <<0, 0, 0, 0>>]
  /\ InitLocals

NextRatio ==
  \/ DecideRatio(1)
  \/ OpenCounter(1)
  \/ ReadCounter(1)
  \/ VisitBlock(1, FewBlocks)
  \/ WriteBack(1)

SpecRatio == InitRatio /\ [][NextRatio]_vars

\* One invocation over modules whose last block is of any shape
InitBlocks ==
  /\ envRatio \in FewRatioEnvs
  /\ fs = [ok |-> TRUE, exists |-> TRUE, bytes |-> <<255, 0, 0, 0>>]
  /\ InitLocals

NextBlocks ==
  \/ DecideRatio(1)
  \/ OpenCounter(1)
  \/ ReadCounter(1)
  \/ VisitBlock(1, IF visited[1] + 1 < MaxBlocks THEN FewBlocks ELSE BlockShapes)
  \/ WriteBack(1)

SpecBlocks == InitBlocks /\ [][NextBlocks]_vars

\* Invocations that a parallel build starts at any time
NextConc ==
  \/ \E p \in Procs : DecideRatio(p)
  \/ \E p \in Procs : OpenCounter(p)
  \/ \E p \in Procs : ReadCounter(p)
  \/ \E p \in Procs : VisitBlock(p, FewBlocks)
  \/ \E p \in Procs : WriteBack(p)

\* The ratio unset (every block sampled); the file absent, empty or about to wrap
InitConc ==
  /\ envRatio = NoRatio
  /\ fs \in {f \in FsStates : f.ok /\ (f.bytes = <<>> \/ f.bytes = <<254, 255, 255, 255>>)}
  /\ InitLocals

SpecConc == InitConc /\ [][NextConc]_vars

(***************************************************************************)
(* What the claims speak of.                                               *)
(***************************************************************************)
Range(f) == {f[i] : i \in DOMAIN f}

\* w + k in 32-bit arithmetic
RECURSIVE Plus32(_, _)
Plus32(w, k) == IF k = 0 THEN w ELSE Plus32(IncBytes(w), k - 1)

RECURSIVE SumOver(_, _)
SumOver(f, S) ==
  IF S = {} THEN 0
  ELSE LET x == CHOOSE y \in S : TRUE IN f[x] + SumOver(f, S \ {x})

AllIssued == UNION {Range(issued[p]) : p \in Procs}
TotalSampled == SumOver(inst_blocks, Procs)
Running(p) == pc[p] \in {"loop", "done"}

DistCalls(b) == SelectSeq(b, LAMBDA i : i.op = "call" /\ i.fn = "insert_distance")
IsBlockCall(i) == i.op = "call" /\ i.fn = "insert_block"
BlockCalls(b) == SelectSeq(b, IsBlockCall)
Terminator(b) == b[Len(b)]

\* C1 as amended: over non-overlapping invocations that start from a counter
\* file holding P, the BlockIDs issued are pairwise distinct and are exactly
\* P+1 .. P+totalSampled (in 32-bit arithmetic): a sampled block gets the
\* counter value as it is after that block's increment.
C1_IdsAfterIncrement ==
  Running(1) =>
    /\ AllIssued = {Plus32(startId[1], k) : k \in 1..TotalSampled}
    /\ Cardinality(AllIssued) = TotalSampled
    /\ \A p \in Procs : Len(issued[p]) = inst_blocks[p]

C1_Witness ==
  /\ \A p \in Procs : pc[p] = "done" /\ inst_blocks[p] = MaxBlocks
  /\ startId[1] = <<255, 0, 0, 0>>

\* C1 as the claim states it: the BlockIDs issued are exactly
\* P .. P+totalSampled-1, each block getting the value before its increment.
C1_Original ==
  Running(1) => AllIssued = {Plus32(startId[1], k) : k \in 0..(TotalSampled - 1)}

\* C2 as the claim states it: with the counter file absent at the start (and so
\* created empty) or shorter than four bytes, an invocation that can open the
\* file does not abort but goes on from counter value 0.
C2_Claim ==
  \A p \in Procs :
    (Len(fs.bytes) < 4 /\ pc[p] \notin {"start", "open", "read", "fatal_ratio", "fatal_open"})
      => (Running(p) /\ startId[p] = Zero32)

\* C3: two invocations in sequence, nobody else writing the file: the second
\* starts from the value the first persisted, their BlockIDs form two
\* contiguous ranges, the second beginning right after the first ends, the
\* ranges are disjoint and their union has n1 + n2 elements.
C3_TwoRuns ==
  \A p \in Procs : \A q \in Procs :
    (q = p + 1 /\ pc[p] = "done" /\ Running(q)) =>
      /\ startId[q] = CurId[p]
      /\ \A k \in 1..Len(issued[p]) : issued[p][k] = Plus32(startId[p], k)
      /\ \A k \in 1..Len(issued[q]) :
            issued[q][k] = Plus32(startId[p], Len(issued[p]) + k)
      /\ Range(issued[p]) \cap Range(issued[q]) = {}
      /\ Cardinality(Range(issued[p]) \cup Range(issued[q]))
           = inst_blocks[p] + inst_blocks[q]

C3_Witness ==
  /\ pc[1] = "done" /\ pc[2] = "done"
  /\ startId[1] = <<254, 255, 255, 255>>
  /\ issued[1] = <<<<255, 255, 255, 255>>>>
  /\ issued[2] = <<Zero32, <<1, 0, 0, 0>>>>

(***************************************************************************)
(* Claims about the block visited last.                                    *)
(***************************************************************************)
NumCases(SI) == Len(SI.cases)

\* The sampled block ends in a switch over an integer of at most 64 bits
SwitchCase(b) ==
  b.sampled /\ Terminator(b.orig).op = "switch" /\ Terminator(b.orig).bits <= 64

\* The sampled block ends in a conditional branch right after a compare of
\* two integers of at most w bits
CmpBrCase(b, w) ==
  /\ b.sampled
  /\ Len(b.orig) >= 2
  /\ Terminator(b.orig) = Br(TRUE)
  /\ b.orig[Len(b.orig) - 1].op = "icmp"
  /\ b.orig[Len(b.orig) - 1].ty = "int"
  /\ b.orig[Len(b.orig) - 1].bits <= w

TheCmp(b) == b.orig[Len(b.orig) - 1]

\* Default destination, then the destination of every case
DestList(SI) == <<SI.dflt>> \o [k \in 1..NumCases(SI) |-> SI.cases[k].dest]
ValList(SI) == [k \in 1..NumCases(SI) |-> SI.cases[k].val]

\* How many distinct entries the list has up to the first occurrence of L[j]
FirstOcc(L, j) == CHOOSE i \in 1..j : L[i] = L[j] /\ \A h \in 1..(i - 1) : L[h] # L[j]
OccIndex(L, j) == Cardinality({L[h] : h \in 1..FirstOcc(L, j)})

\* C4 as amended: a switch over an integer of at most 64 bits gets one record
\* per case and then the default record; labels number the destination
\* blocks in first-occurrence order over the default destination followed
\* by the cases' destinations, starting at 1.  So the default record has
\* label 1, cases with the same destination share a label, a case that
\* jumps to the default destination has label 1 too, and no record has
\* label 0.
C4_LabelsByDestination ==
  SwitchCase(bb) =>
    LET SI == Terminator(bb.orig)
        n == NumCases(SI)
        calls == DistCalls(bb.out)
    IN  /\ Len(calls) = n + 1
        /\ calls[n + 1].label = 1
        /\ \A k \in 1..n : calls[k].label = OccIndex(DestList(SI), k + 1)
        /\ \A k \in 1..(n + 1) : calls[k].label # 0 /\ calls[k].id = bb.id

C4_Witness ==
  /\ SwitchCase(bb)
  /\ NumCases(Terminator(bb.orig)) = 2
  /\ Terminator(bb.orig).cases[1].dest # Terminator(bb.orig).dflt
  /\ Terminator(bb.orig).cases[2].dest = Terminator(bb.orig).dflt
  /\ DistCalls(bb.out)[1].label = 2
  /\ DistCalls(bb.out)[2].label = 1

\* C4 as the claim states it: the default record has label 0, no case's
\* record has label 0, and the cases have labels 1..N in first-occurrence
\* order of their case values.
C4_Original ==
  SwitchCase(bb) =>
    LET SI == Terminator(bb.orig)
        n == NumCases(SI)
        calls == DistCalls(bb.out)
    IN  /\ Len(calls) = n + 1
        /\ calls[n + 1].label = 0
        /\ \A k \in 1..n : calls[k].label # 0
        /\ \A k \in 1..n : calls[k].label = OccIndex(ValList(SI), k)

\* C5 as the claim states it: a sampled block of at most two instructions
\* gets no distance-report call, only the edge-coverage update and the
\* block-report call.
C5_Claim ==
  (bb.sampled /\ Len(bb.orig) <= 2) =>
    /\ DistCalls(bb.out) = <<>>
    /\ Len(BlockCalls(bb.out)) = 1

BlockCallAt(b) == CHOOSE i \in 1..Len(b) : IsBlockCall(b[i])
DistCallsAt(b) == {i \in 1..Len(b) : b[i].op = "call" /\ b[i].fn = "insert_distance"}

\* The instruction of the original block the distance records are put before
Instrumented(orig) ==
  IF Terminator(orig).op = "switch" THEN Len(orig) ELSE Len(orig) - 1

\* C6 as amended: a sampled block has exactly one block-report call; it sits
\* at the first insertion point, directly before the first non-PHI
\* instruction the block had, and after the edge-coverage update.  It
\* follows the block's distance-report calls only when the instrumented
\* compare or switch is itself that first non-PHI instruction; in every
\* other block it precedes all of them.
C6_ReportAtInsertionPoint ==
  bb.sampled =>
    LET i == BlockCallAt(bb.out)
        first == getFirstInsertionPt(bb.orig)
    IN  /\ Len(BlockCalls(bb.out)) = 1
        /\ \E e \in 1..(i - 1) : bb.out[e].op = "store_prev_loc"
        /\ i < Len(bb.out) /\ bb.out[i + 1] = bb.orig[first]
        /\ bb.out[i].id = bb.id
        /\ \A d \in DistCallsAt(bb.out) :
             IF Instrumented(bb.orig) = first THEN d < i ELSE i < d

C6_Witness ==
  /\ bb.sampled
  /\ DistCallsAt(bb.out) # {}
  /\ \A d \in DistCallsAt(bb.out) : BlockCallAt(bb.out) < d

\* C6 as the claim states it: the block-report call follows the
\* edge-coverage update and every distance-report call of its block.
C6_Original ==
  bb.sampled =>
    /\ Len(BlockCalls(bb.out)) = 1
    /\ \A d \in DistCallsAt(bb.out) : d < BlockCallAt(bb.out)

Bit(x, j) == (x \div (2 ^ j)) % 2

\* d is the bitwise exclusive or of a and b, all of the same width
IsXorOf(d, a, b) ==
  /\ Len(d) = Len(a) /\ Len(a) = Len(b)
  /\ \A i \in 1..Len(d) : \A j \in 0..7 :
       Bit(d[i], j) = (IF Bit(a[i], j) = Bit(b[i], j) THEN 0 ELSE 1)

\* C7: a sampled block that ends in a conditional branch right after a
\* compare of two 32-bit integers a and b gets exactly one distance record;
\* it carries the BlockID of the block's report call and label 0, its value
\* is a XOR b, and the value is 0 exactly when a = b.
C7_OneRecordXor ==
  (CmpBrCase(bb, 32) /\ TheCmp(bb).bits = 32) =>
    LET calls == DistCalls(bb.out)
        cmp == TheCmp(bb)
    IN  /\ Len(calls) = 1
        /\ calls[1].id = bb.id
        /\ calls[1].id = BlockCalls(bb.out)[1].id
        /\ calls[1].label = 0
        /\ IsXorOf(calls[1].dist, cmp.a, cmp.b)
        /\ (calls[1].dist = Zero32) <=> (cmp.a = cmp.b)

C7_Witness ==
  /\ CmpBrCase(bb, 32) /\ TheCmp(bb).bits = 32
  /\ TheCmp(bb).a = Operand(32, 0, 0)
  /\ TheCmp(bb).b = Operand(32, 10, 1)
  /\ DistCalls(bb.out)[1].dist = <<10, 0, 0, 1>>

\* C10 as the claim states it: for operands of any width up to 64 bits the
\* emitted distance is 0 exactly when the two compared values are equal,
\* and so the default record of a switch holds the number of cases whose
\* value equals the condition.
C10_Claim ==
  /\ CmpBrCase(bb, 64) =>
       ((DistCalls(bb.out)[1].dist = Zero32) <=> (TheCmp(bb).a = TheCmp(bb).b))
  /\ SwitchCase(bb) =>
       LET SI == Terminator(bb.orig)
           n == NumCases(SI)
           calls == DistCalls(bb.out)
       IN  /\ \A k \in 1..n : (calls[k].dist = Zero32) <=> (SI.cond = SI.cases[k].val)
           /\ calls[n + 1].dist
                = Const32(Cardinality({k \in 1..n : SI.cond = SI.cases[k].val}))

(***************************************************************************)
(* Claims about the ratio and about overlapping invocations.               *)
(***************************************************************************)
\* The string after leading white space and an optional "+"
Body(s) ==
  LET t == SkipSpace(s) IN IF t # <<>> /\ Head(t) = "+" THEN Tail(t) ELSE t

NoLeadingNumber(s) == Body(s) = <<>> \/ ~IsDigit(Head(Body(s)))
LeadingValue(s) == ScanDigits(Body(s), 0, 0).val

BadRatio ==
  /\ envRatio.set
  /\ \/ NoLeadingNumber(envRatio.str)
     \/ LeadingValue(envRatio.str) = 0
     \/ LeadingValue(envRatio.str) > 100

Untouched(p) ==
  /\ visited[p] = 0 /\ inst_blocks[p] = 0 /\ issued[p] = <<>>
  /\ CurId[p] = Zero32 /\ bb.owner # p

NonNumericChar(c) == ~IsDigit(c) /\ c # " " /\ c # "+"

Min(a, b) == IF a < b THEN a ELSE b

\* C9: nothing serialises the read-modify-write cycles of two invocations:
\* two invocations that read the same counter value issue the same BlockIDs,
\* the k-th sampled block of either getting that value plus k; and the
\* interleaving in which both read before either writes is reachable.
C9_SameStartSameIds ==
  \A p \in Procs : \A q \in Procs :
    (p # q /\ Running(p) /\ Running(q) /\ startId[p] = startId[q]) =>
      \A k \in 1..Min(Len(issued[p]), Len(issued[q])) :
        /\ issued[p][k] = issued[q][k]
        /\ issued[p][k] = Plus32(startId[p], k)

\* Both invocations are between their read and their write, and a block of
\* each compilation unit carries the same BlockID
C9_Witness ==
  /\ pc[1] = "loop" /\ pc[2] = "loop"
  /\ startId[1] = startId[2]
  /\ issued[1] # <<>> /\ issued[2] # <<>>
  /\ issued[1][1] = issued[2][1]
  /\ bb.sampled /\ bb.owner = 2 /\ bb.id = issued[1][1]

====
